---- MODULE Spec2Model ----
(***************************************************************************)
(* Model of rcl's rosout publisher registry (logging_rosout.c) and of the  *)
(* logging sink dispatcher (logging.c).                                    *)
(*                                                                         *)
(* Every C function is an operator over a context record                   *)
(*   [init, map, pubs, ret, calls, crashed]                                *)
(* holding the registry statics (__is_initialized, __logger_map), the      *)
(* transport's publishers, the status the function returns, the calls it   *)
(* made on its collaborators, and whether the process faulted.  The        *)
(* outcomes of the collaborators' calls are parameters, chosen by the      *)
(* actions with \E.                                                        *)
(***************************************************************************)
EXTENDS Integers, Sequences, FiniteSets, TLC

\* ------------------------------------------------------------------ bounds
MaxPublishers == 2
MaxLoggingPublishers == 1
MaxSec == 1

\* --------------------------------------------------------------- constants
RCL_LOGGING_MAX_OUTPUT_FUNCS == 4
NanosPerSec == 1000000000

RCL_RET_OK == "RCL_RET_OK"
RCL_RET_ERROR == "RCL_RET_ERROR"
RCL_RET_BAD_ALLOC == "RCL_RET_BAD_ALLOC"
RCL_RET_INVALID_ARGUMENT == "RCL_RET_INVALID_ARGUMENT"
RCL_RET_ALREADY_INIT == "RCL_RET_ALREADY_INIT"
RCL_RET_NOT_INIT == "RCL_RET_NOT_INIT"
RCUTILS_RET_NOT_FOUND == "RCUTILS_RET_NOT_FOUND"
RCUTILS_RET_HASH_MAP_NO_MORE_ENTRIES == "RCUTILS_RET_HASH_MAP_NO_MORE_ENTRIES"
VOID == "void"

\* ------------------------------------------------------------------- nodes
NULL == "NULL"
Nodes == {"n1", "n2", "n0"}

\* n0 is a node that yields no logger name.
rcl_node_get_logger_name(node) ==
  CASE node = "n1" -> "a"
    [] node = "n2" -> "b"
    [] OTHER -> NULL

\* No node carries the logger name "c".
LoggerNames == {"a", "c"}

\* ---------------------------------------------------------------- records
Locations ==
  { [present |-> TRUE, file_name |-> "f.c", function_name |-> "fn", line_number |-> 7],
    [present |-> FALSE, file_name |-> NULL, function_name |-> NULL, line_number |-> 0] }

NoMsg ==
  [sec |-> 0, nanosec |-> 0, level |-> 0, line |-> 0,
   name |-> NULL, msg |-> NULL, file |-> NULL, function |-> NULL]

NoRecord ==
  [location |-> [present |-> FALSE, file_name |-> NULL, function_name |-> NULL,
                 line_number |-> 0],
   severity |-> 0, name |-> NULL, timestamp |-> 0, log_str |-> NULL]

\* Timestamps that exercise both signs, exact seconds and the last
\* nanosecond of a second.
Timestamps ==
  { s * NanosPerSec + r : s \in (0 - MaxSec)..MaxSec,
                          r \in {-123456789, -1, 0, 1, 123456789} }
  \cup {999999999, -999999999}

RecordStamps == {1123456789}

Records(names, stamps) ==
  [location : Locations, severity : {20}, name : names,
   timestamp : stamps, log_str : {"obstacle detected"}]

\* ------------------------------------------------------------------ events
Ev(fn, node, key, pub, msg) ==
  [fn |-> fn, node |-> node, key |-> key, pub |-> pub, msg |-> msg]

Call(r, e) == [r EXCEPT !.calls = Append(@, e)]

Fns(calls) == [i \in 1..Len(calls) |-> calls[i].fn]

Count(calls, fn) == Cardinality({i \in 1..Len(calls) : calls[i].fn = fn})

\* ------------------------------------------------------------ hash map
EmptyMap == [k \in {} |-> [node |-> NULL, publisher |-> 0]]

rcutils_hash_map_key_exists(map, key) == key \in DOMAIN map

rcutils_hash_map_set(map, key, entry) ==
  [k \in DOMAIN map \cup {key} |-> IF k = key THEN entry ELSE map[k]]

rcutils_hash_map_unset(map, key) == [k \in DOMAIN map \ {key} |-> map[k]]

\* ------------------------------------------------------------ publishers
EmptyPubs == [h \in 1..MaxPublishers |-> "unused"]

FreeHandles(pubs) == {h \in DOMAIN pubs : pubs[h] = "unused"}

NewHandle(pubs) == CHOOSE h \in FreeHandles(pubs) : \A g \in FreeHandles(pubs) : h <= g

\* rcl_publisher_init: outcome RCL_RET_OK makes a new active publisher.
rcl_publisher_init(r, node, outcome) ==
  IF outcome = RCL_RET_OK
  THEN LET h == NewHandle(r.pubs)
       IN  [Call(r, Ev("rcl_publisher_init", node, outcome, h, NoMsg))
              EXCEPT !.pubs[h] = "active", !.ret = RCL_RET_OK]
  ELSE [Call(r, Ev("rcl_publisher_init", node, outcome, 0, NoMsg)) EXCEPT !.ret = outcome]

\* rcl_publisher_fini on the copy of the publisher held in an entry.
\* Finalizing a publisher whose earlier fini succeeded frees its impl a
\* second time: undefined, it may report success, report an error or fault.
rcl_publisher_fini(r, entry, outcome, ub) ==
  LET faults == r.pubs[entry.publisher] = "finalized" /\ ub = "crash"
      c == Call(r, Ev("rcl_publisher_fini", entry.node,
                      IF faults THEN "fault" ELSE outcome, entry.publisher, NoMsg))
  IN  IF faults
      THEN [c EXCEPT !.crashed = TRUE]
      ELSE IF outcome = RCL_RET_OK
      THEN [c EXCEPT !.pubs[entry.publisher] = "finalized", !.ret = RCL_RET_OK]
      ELSE [c EXCEPT !.ret = outcome]

\* ---------------------------------------------------------------- registry
\* The context a function starts from: nothing called, nothing returned.
NewCtx(init, map, pubs) ==
  [init |-> init, map |-> map, pubs |-> pubs,
   ret |-> RCL_RET_OK, calls |-> <<>>, crashed |-> FALSE]

Ret(r, status) == [r EXCEPT !.ret = status]

MacroNeverReturns(r) == FALSE

\* TRUE when the macro makes the function return RCL_RET_OK at once.
RCL_LOGGING_ROSOUT_VERIFY_INITIALIZED(r) == ~r.init

rcl_logging_rosout_init_always(r, allocator, map_init_ret) ==
  IF allocator = NULL THEN Ret(r, RCL_RET_INVALID_ARGUMENT)
  ELSE LET c == Call(r, Ev("rcutils_hash_map_init", NULL, NULL, 0, NoMsg))
       IN  IF map_init_ret = RCL_RET_OK
           THEN [c EXCEPT !.map = EmptyMap, !.init = TRUE, !.ret = RCL_RET_OK]
           ELSE [c EXCEPT !.map = EmptyMap, !.ret = map_init_ret]

rcl_logging_rosout_init(r, allocator, map_init_ret) ==
  IF allocator = NULL THEN Ret(r, RCL_RET_INVALID_ARGUMENT)
  ELSE IF r.init THEN Ret(r, RCL_RET_OK)
  ELSE LET c == Call(r, Ev("rcutils_hash_map_init", NULL, NULL, 0, NoMsg))
       IN  IF map_init_ret = RCL_RET_OK
           THEN [c EXCEPT !.map = EmptyMap, !.init = TRUE, !.ret = RCL_RET_OK]
           ELSE [c EXCEPT !.map = EmptyMap, !.ret = map_init_ret]

\* The orders in which the hash map may hand out its keys.
Orders(S) ==
  {o \in [1..Cardinality(S) -> S] : \A i, j \in 1..Cardinality(S) : o[i] = o[j] => i = j}

\* What goes wrong in rcl_logging_rosout_fini over n entries, and at which
\* entry (0: nothing).
FiniPlans(n) ==
  {[stop |-> 0, how |-> "none"]} \cup
  [stop : 1..n,
   how : {"fini_fail", "fini_crash", "next_not_found", "next_crash"}]

\* The loop of rcl_logging_rosout_fini from its first publisher on.  After a
\* successful rcl_publisher_fini the next entry is asked for with `key`
\* (a const char *) where the map expects the address of a key, as every
\* other call in the file passes it: the lookup of that previous key reads
\* through the characters of the logger name.  It may fault, may find no
\* such key (RCUTILS_RET_NOT_FOUND) or may land on the intended entry.
RECURSIVE fini_loop(_, _, _, _)
fini_loop(r, order, i, plan) ==
  IF i > Len(order) THEN Ret(r, RCUTILS_RET_HASH_MAP_NO_MORE_ENTRIES)
  ELSE
    LET here == plan.stop = i
        f == rcl_publisher_fini(r, r.map[order[i]],
               IF here /\ plan.how = "fini_fail" THEN RCL_RET_ERROR ELSE RCL_RET_OK,
               IF here /\ plan.how = "fini_crash" THEN "crash" ELSE "benign")
        g == Call(f, Ev("rcutils_hash_map_get_next_key_and_data", NULL, order[i], 0, NoMsg))
    IN  IF f.crashed \/ f.ret # RCL_RET_OK THEN f
        ELSE IF here /\ plan.how = "next_crash" THEN [g EXCEPT !.crashed = TRUE]
        ELSE IF here /\ plan.how = "next_not_found" THEN Ret(g, RCUTILS_RET_NOT_FOUND)
        ELSE fini_loop(g, order, i + 1, plan)

rosout_fini_stays_initialized(r, order, plan, map_fini_ret) ==
  IF RCL_LOGGING_ROSOUT_VERIFY_INITIALIZED(r) THEN Ret(r, RCL_RET_OK)
  ELSE
    LET first == Call(r, Ev("rcutils_hash_map_get_next_key_and_data", NULL, NULL, 0, NoMsg))
        l == fini_loop(first, order, 1, plan)
        m == Call(l, Ev("rcutils_hash_map_fini", NULL, map_fini_ret, 0, NoMsg))
    IN  IF l.crashed THEN l
        ELSE IF l.ret # RCUTILS_RET_HASH_MAP_NO_MORE_ENTRIES THEN l
        ELSE IF map_fini_ret = RCL_RET_OK
             THEN [m EXCEPT !.map = EmptyMap, !.ret = RCL_RET_OK]
             ELSE Ret(m, map_fini_ret)

rcl_logging_rosout_fini(r, order, plan, map_fini_ret) ==
  IF RCL_LOGGING_ROSOUT_VERIFY_INITIALIZED(r) THEN Ret(r, RCL_RET_OK)
  ELSE
    LET first == Call(r, Ev("rcutils_hash_map_get_next_key_and_data", NULL, NULL, 0, NoMsg))
        l == fini_loop(first, order, 1, plan)
        m == Call(l, Ev("rcutils_hash_map_fini", NULL, map_fini_ret, 0, NoMsg))
    IN  IF l.crashed THEN l
        ELSE IF l.ret # RCUTILS_RET_HASH_MAP_NO_MORE_ENTRIES THEN l
        ELSE IF map_fini_ret = RCL_RET_OK
             THEN [m EXCEPT !.map = EmptyMap, !.init = FALSE, !.ret = RCL_RET_OK]
             ELSE Ret(m, map_fini_ret)

CreateAndAddPublisherNoUndo(r, node, logger_name, pub_init_ret, set_ret, fini_ret) ==
  LET p == rcl_publisher_init(r, node, pub_init_ret)
      new_entry == [node |-> node, publisher |-> p.calls[Len(p.calls)].pub]
      s == Call(p, Ev("rcutils_hash_map_set", node, set_ret, new_entry.publisher, NoMsg))
  IN  IF p.ret # RCL_RET_OK THEN p
      ELSE IF set_ret = RCL_RET_OK
           THEN [s EXCEPT !.map = rcutils_hash_map_set(@, logger_name, new_entry),
                          !.ret = RCL_RET_OK]
           ELSE Ret(s, set_ret)

\* Lines 125-146: create the publisher on the node and add it to the map.
CreateAndAddPublisher(r, node, logger_name, pub_init_ret, set_ret, fini_ret) ==
  LET p == rcl_publisher_init(r, node, pub_init_ret)
      new_entry == [node |-> node, publisher |-> p.calls[Len(p.calls)].pub]
      s == Call(p, Ev("rcutils_hash_map_set", node, set_ret, new_entry.publisher, NoMsg))
  IN  IF p.ret # RCL_RET_OK THEN p
      ELSE IF set_ret = RCL_RET_OK
           THEN [s EXCEPT !.map = rcutils_hash_map_set(@, logger_name, new_entry),
                          !.ret = RCL_RET_OK]
           ELSE Ret(rcl_publisher_fini(s, new_entry, fini_ret, "benign"), set_ret)

init_publisher_for_node_unchecked(r, node, pub_init_ret, set_ret, fini_ret) ==
  LET logger_name == rcl_node_get_logger_name(node)
  IN  IF RCL_LOGGING_ROSOUT_VERIFY_INITIALIZED(r) THEN Ret(r, RCL_RET_OK)
      ELSE IF node = NULL THEN Ret(r, RCL_RET_INVALID_ARGUMENT)
      ELSE IF logger_name = NULL THEN Ret(r, RCL_RET_ERROR)
      ELSE CreateAndAddPublisher(r, node, logger_name, pub_init_ret, set_ret, fini_ret)

rcl_logging_rosout_init_publisher_for_node(r, node, pub_init_ret, set_ret, fini_ret) ==
  LET logger_name == rcl_node_get_logger_name(node)
  IN  IF RCL_LOGGING_ROSOUT_VERIFY_INITIALIZED(r) THEN Ret(r, RCL_RET_OK)
      ELSE IF node = NULL THEN Ret(r, RCL_RET_INVALID_ARGUMENT)
      ELSE IF logger_name = NULL THEN Ret(r, RCL_RET_ERROR)
      ELSE IF rcutils_hash_map_key_exists(r.map, logger_name)
           THEN Ret(r, RCL_RET_ALREADY_INIT)
      ELSE CreateAndAddPublisher(r, node, logger_name, pub_init_ret, set_ret, fini_ret)

NotRegisteredAsSuccess(r) == Ret(r, RCL_RET_OK)

\* Lines 163-165: what a node without an entry is answered.
NotRegistered(r) == Ret(r, RCL_RET_NOT_INIT)

fini_publisher_for_node_unset_always(r, node, fini_ret, unset_ret, ub) ==
  LET logger_name == rcl_node_get_logger_name(node)
  IN  IF RCL_LOGGING_ROSOUT_VERIFY_INITIALIZED(r) THEN Ret(r, RCL_RET_OK)
      ELSE IF node = NULL THEN Ret(r, RCL_RET_INVALID_ARGUMENT)
      ELSE IF logger_name = NULL THEN Ret(r, RCL_RET_ERROR)
      ELSE IF ~rcutils_hash_map_key_exists(r.map, logger_name)
           THEN NotRegistered(r)
      ELSE
        LET g == Call(r, Ev("rcutils_hash_map_get", NULL, logger_name, 0, NoMsg))
            f == rcl_publisher_fini(g, r.map[logger_name], fini_ret, ub)
            u == Call(f, Ev("rcutils_hash_map_unset", NULL, logger_name, 0, NoMsg))
        IN  IF f.crashed THEN f
            ELSE [u EXCEPT !.map = rcutils_hash_map_unset(@, logger_name)]

rcl_logging_rosout_fini_publisher_for_node(r, node, fini_ret, unset_ret, ub) ==
  LET logger_name == rcl_node_get_logger_name(node)
  IN  IF RCL_LOGGING_ROSOUT_VERIFY_INITIALIZED(r) THEN Ret(r, RCL_RET_OK)
      ELSE IF node = NULL THEN Ret(r, RCL_RET_INVALID_ARGUMENT)
      ELSE IF logger_name = NULL THEN Ret(r, RCL_RET_ERROR)
      ELSE IF ~rcutils_hash_map_key_exists(r.map, logger_name)
           THEN NotRegistered(r)
      ELSE
        LET g == Call(r, Ev("rcutils_hash_map_get", NULL, logger_name, 0, NoMsg))
            f == rcl_publisher_fini(g, r.map[logger_name], fini_ret, ub)
            u == Call(f, Ev("rcutils_hash_map_unset", NULL, logger_name, 0, NoMsg))
        IN  IF f.crashed \/ f.ret # RCL_RET_OK THEN f
            ELSE IF unset_ret = RCL_RET_OK
                 THEN [u EXCEPT !.map = rcutils_hash_map_unset(@, logger_name)]
                 ELSE Ret(u, unset_ret)

\* ------------------------------------------------------- record to message
\* C's / and % on a signed 64-bit value: the quotient is truncated towards
\* zero and the remainder takes the sign of the dividend.
FloorDiv(a, b) == a \div b

TruncDiv(a, b) == IF a >= 0 THEN a \div b ELSE 0 - ((0 - a) \div b)

TruncRem(a, b) == a - b * TruncDiv(a, b)

stamp_sec(timestamp) == TruncDiv(timestamp, NanosPerSec)

stamp_nanosec(timestamp) == TruncRem(timestamp, NanosPerSec)

\* What reading through a NULL location yields when the read does not fault.
GarbageLocation ==
  [present |-> FALSE, file_name |-> "?", function_name |-> "?", line_number |-> -1]

LogMessage(location, severity, name, timestamp, log_str) ==
  [sec |-> stamp_sec(timestamp), nanosec |-> stamp_nanosec(timestamp),
   level |-> severity, line |-> location.line_number,
   name |-> name, msg |-> log_str,
   file |-> location.file_name, function |-> location.function_name]

\* rcl_publish through the copy of the publisher held in an entry.  A
\* publisher whose fini succeeded has no impl left: publishing through it is
\* undefined as well.
rcl_publish(r, entry, message, publish_ret, ub) ==
  LET c == Call(r, Ev("rcl_publish", entry.node, NULL, entry.publisher, message))
  IN  IF r.pubs[entry.publisher] = "finalized" /\ ub = "crash"
      THEN [c EXCEPT !.crashed = TRUE]
      ELSE Ret(c, publish_ret)

\* rec.location.present = FALSE is a NULL location: lines 196, 199 and 200
\* read through it without a test.  The read faults or yields garbage.
rcl_logging_rosout_output_handler(r, rec, created, publish_ret, ub) ==
  LET g == Call(r, Ev("rcutils_hash_map_get", NULL, rec.name, 0, NoMsg))
      m == Call(g, Ev("rcl_interfaces__msg__Log__create", NULL,
                      IF created THEN "message" ELSE NULL, 0, NoMsg))
      location == IF rec.location.present THEN rec.location ELSE GarbageLocation
      log_message == LogMessage(location, rec.severity, rec.name, rec.timestamp, rec.log_str)
      p == rcl_publish(m, r.map[rec.name], log_message, publish_ret, ub)
      d == Call(p, Ev("rcl_interfaces__msg__Log__destroy", NULL, NULL, 0, NoMsg))
  IN  IF ~r.init THEN Ret(r, VOID)
      ELSE IF ~rcutils_hash_map_key_exists(r.map, rec.name) THEN Ret(g, VOID)
      ELSE IF ~created THEN Ret(m, VOID)
      ELSE IF ~rec.location.present /\ ub = "crash" THEN [m EXCEPT !.crashed = TRUE]
      ELSE IF p.crashed THEN p
      ELSE Ret(d, VOID)

\* -------------------------------------------------------------- dispatcher
Handlers == {"console", "rosout", "ext_lib"}

NoHandlers == [i \in 1..RCL_LOGGING_MAX_OUTPUT_FUNCS |-> NULL]

Level(level) == [NoMsg EXCEPT !.level = level]

\* g_rcl_logging_out_handlers[g_rcl_logging_num_out_handlers++] = handler
AddHandler(d, handler) ==
  [d EXCEPT !.handlers[d.num + 1] = handler, !.num = d.num + 1]

KeepHandlers(d) == d

\* Line 284 of rcl_logging_configure.
ResetHandlers(d) == [d EXCEPT !.num = 0]

SinkActiveWhenEnabled(enabled, status) == enabled

\* Lines 295 and 302: a sink is appended when its subsystem is enabled and
\* its initialization returned RCL_RET_OK.
SinkActive(enabled, status) == enabled /\ status = RCL_RET_OK

\* The value rcl_logging_configure returns once both subsystems were tried.
ConfigureStatus(rosout_status, ext_enabled, ext_status) ==
  IF ext_enabled THEN ext_status ELSE rosout_status

\* rcl_logging_configure; yields the registry context and the dispatcher.
rcl_logging_configure(r, d, args, allocator, map_init_ret, ext_init_ret) ==
  LET d0 == ResetHandlers([d EXCEPT !.stdout_enabled = ~args.log_stdout_disabled,
                                    !.rosout_enabled = ~args.log_rosout_disabled,
                                    !.ext_lib_enabled = ~args.log_ext_lib_disabled])
      r0 == IF args.log_level >= 0
            THEN Call(r, Ev("rcutils_logging_set_default_logger_level", NULL, NULL, 0,
                            Level(args.log_level)))
            ELSE r
      d1 == IF d0.stdout_enabled THEN AddHandler(d0, "console") ELSE d0
      i1 == IF d0.rosout_enabled
            THEN rcl_logging_rosout_init(r0, allocator, map_init_ret)
            ELSE Ret(r0, RCL_RET_OK)
      r1 == IF d0.rosout_enabled
            THEN Call(i1, Ev("rcl_logging_rosout_init", NULL, i1.ret, 0, NoMsg))
            ELSE i1
      d2 == IF SinkActive(d0.rosout_enabled, r1.ret) THEN AddHandler(d1, "rosout") ELSE d1
      ext_ok == SinkActive(d0.ext_lib_enabled, ext_init_ret)
      r2 == IF d0.ext_lib_enabled
            THEN Call(r1, Ev("rcl_logging_external_initialize", NULL, ext_init_ret, 0, NoMsg))
            ELSE r1
      r3 == IF ext_ok
            THEN Call(r2, Ev("rcl_logging_external_set_logger_level", NULL, NULL, 0,
                            Level(args.log_level)))
            ELSE r2
      d3 == IF ext_ok
            THEN [AddHandler(d2, "ext_lib") EXCEPT !.ext_running = TRUE]
            ELSE d2
      r4 == Call(r3, Ev("rcutils_logging_set_output_handler", NULL, "multiple", 0, NoMsg))
  IN  [r |-> Ret(r4, ConfigureStatus(r1.ret, d0.ext_lib_enabled, ext_init_ret)),
       d |-> [d3 EXCEPT !.output_handler = "multiple"]]

KeepOutputHandler(d) == d

\* Line 315: the bare console handler becomes the output handler.
RestoreConsoleHandler(d) == [d EXCEPT !.output_handler = "console"]

\* rcl_logging_fini; yields the registry context and the dispatcher.
rcl_logging_fini(r, d, order, plan, map_fini_ret, ext_shutdown_ret) ==
  LET r0 == Call(r, Ev("rcutils_logging_set_output_handler", NULL, "console", 0, NoMsg))
      d0 == RestoreConsoleHandler(d)
      f1 == IF d.rosout_enabled
            THEN rcl_logging_rosout_fini(r0, order, plan, map_fini_ret)
            ELSE Ret(r0, RCL_RET_OK)
      r1 == IF d.rosout_enabled /\ ~f1.crashed
            THEN Call(f1, Ev("rcl_logging_rosout_fini", NULL, f1.ret, 0, NoMsg))
            ELSE f1
      r2 == Call(r1, Ev("rcl_logging_external_shutdown", NULL, ext_shutdown_ret, 0, NoMsg))
  IN  IF r1.crashed THEN [r |-> r1, d |-> d0]
      ELSE IF r1.ret = RCL_RET_OK /\ d.ext_lib_enabled
      THEN [r |-> Ret(r2, ext_shutdown_ret),
            d |-> [d0 EXCEPT !.ext_running = IF ext_shutdown_ret = RCL_RET_OK
                                             THEN FALSE ELSE @]]
      ELSE [r |-> r1, d |-> d0]

rcl_logging_ext_lib_output_handler(r, rec) ==
  Call(r, Ev("rcl_logging_external_log", NULL, NULL, 0,
             [NoMsg EXCEPT !.level = rec.severity, !.name = rec.name, !.msg = rec.log_str]))

rcutils_logging_console_output_handler(r, rec) ==
  Call(r, Ev("console_output", NULL, NULL, 0,
             [NoMsg EXCEPT !.level = rec.severity, !.name = rec.name, !.msg = rec.log_str]))

\* One call g_rcl_logging_out_handlers[i](...), announced by the handler's name.
InvokeHandler(r, handler, rec, created, publish_ret, ub) ==
  LET c == Call(r, Ev(handler, NULL, NULL, 0, NoMsg))
  IN  CASE handler = "console" -> rcutils_logging_console_output_handler(c, rec)
        [] handler = "rosout" ->
             rcl_logging_rosout_output_handler(c, rec, created, publish_ret, ub)
        [] handler = "ext_lib" -> rcl_logging_ext_lib_output_handler(c, rec)

\* The handlers the loop of rcl_logging_multiple_output_handler visits from
\* slot i on (slots are numbered from 1 here).
RECURSIVE IteratedHandlers(_, _)
IteratedHandlers(d, i) ==
  IF i <= d.num /\ i \in DOMAIN d.handlers /\ d.handlers[i] # NULL
  THEN <<d.handlers[i]>> \o IteratedHandlers(d, i + 1)
  ELSE <<>>

RECURSIVE InvokeAll(_, _, _, _, _, _)
InvokeAll(r, hs, rec, created, publish_ret, ub) ==
  IF hs = <<>> \/ r.crashed THEN r
  ELSE InvokeAll(InvokeHandler(r, Head(hs), rec, created, publish_ret, ub),
                 Tail(hs), rec, created, publish_ret, ub)

rcl_logging_multiple_output_handler(r, d, rec, created, publish_ret, ub) ==
  Ret(InvokeAll(r, IteratedHandlers(d, 1), rec, created, publish_ret, ub), VOID)

\* The ambient facility hands an emitted record to its one output handler.
rcutils_log(r, d, rec, created, publish_ret, ub) ==
  IF d.output_handler = "multiple"
  THEN rcl_logging_multiple_output_handler(r, d, rec, created, publish_ret, ub)
  ELSE Ret(rcutils_logging_console_output_handler(r, rec), VOID)

\* =================================================================== state
VARIABLES
  is_initialized,                   \* __is_initialized
  logger_map,                       \* __logger_map: logger name -> entry
  pub_state,                        \* the transport's publishers, by handle
  g_rcl_logging_out_handlers,
  g_rcl_logging_num_out_handlers,
  g_rcl_logging_stdout_enabled,
  g_rcl_logging_rosout_enabled,
  g_rcl_logging_ext_lib_enabled,
  output_handler,                   \* the ambient facility's one handler slot
  ext_running,                      \* the external logging library is started
  crashed,                          \* the process faulted
  last                              \* the last call: operation, inputs, status, calls made

vars ==
  <<is_initialized, logger_map, pub_state, g_rcl_logging_out_handlers,
    g_rcl_logging_num_out_handlers, g_rcl_logging_stdout_enabled,
    g_rcl_logging_rosout_enabled, g_rcl_logging_ext_lib_enabled,
    output_handler, ext_running, crashed, last>>

Allocators == {"allocator", NULL}

NoArgs ==
  [log_level |-> -1, log_stdout_disabled |-> TRUE, log_rosout_disabled |-> TRUE,
   log_ext_lib_disabled |-> TRUE]

Args ==
  [log_level : {10}, log_stdout_disabled : BOOLEAN, log_rosout_disabled : BOOLEAN,
   log_ext_lib_disabled : BOOLEAN]

\* The outcomes of message creation and of rcl_publish, and what an undefined
\* read or call does, that make a difference to the output handler.
PublishOutcomes ==
  { [created |-> FALSE, publish_ret |-> RCL_RET_OK, ub |-> "benign"],
    [created |-> TRUE, publish_ret |-> RCL_RET_OK, ub |-> "benign"],
    [created |-> TRUE, publish_ret |-> RCL_RET_ERROR, ub |-> "benign"],
    [created |-> TRUE, publish_ret |-> RCL_RET_OK, ub |-> "crash"] }

\* The outcomes of rcl_publisher_init, rcutils_hash_map_set and the
\* rcl_publisher_fini that follows a failed set.
RegisterOutcomes ==
  { [pub_init_ret |-> RCL_RET_ERROR, set_ret |-> RCL_RET_OK, fini_ret |-> RCL_RET_OK],
    [pub_init_ret |-> RCL_RET_OK, set_ret |-> RCL_RET_OK, fini_ret |-> RCL_RET_OK],
    [pub_init_ret |-> RCL_RET_OK, set_ret |-> RCL_RET_BAD_ALLOC, fini_ret |-> RCL_RET_OK],
    [pub_init_ret |-> RCL_RET_OK, set_ret |-> RCL_RET_BAD_ALLOC, fini_ret |-> RCL_RET_ERROR] }

\* The outcomes of rcl_publisher_fini and rcutils_hash_map_unset.
UnregisterOutcomes ==
  { [fini_ret |-> RCL_RET_ERROR, unset_ret |-> RCL_RET_OK, ub |-> "benign"],
    [fini_ret |-> RCL_RET_OK, unset_ret |-> RCL_RET_OK, ub |-> "benign"],
    [fini_ret |-> RCL_RET_OK, unset_ret |-> RCL_RET_ERROR, ub |-> "benign"],
    [fini_ret |-> RCL_RET_OK, unset_ret |-> RCL_RET_OK, ub |-> "crash"] }

Registry == NewCtx(is_initialized, logger_map, pub_state)

Dispatcher ==
  [handlers |-> g_rcl_logging_out_handlers, num |-> g_rcl_logging_num_out_handlers,
   stdout_enabled |-> g_rcl_logging_stdout_enabled,
   rosout_enabled |-> g_rcl_logging_rosout_enabled,
   ext_lib_enabled |-> g_rcl_logging_ext_lib_enabled,
   output_handler |-> output_handler, ext_running |-> ext_running]

SetRegistry(r) ==
  /\ is_initialized' = r.init
  /\ logger_map' = r.map
  /\ pub_state' = r.pubs
  /\ crashed' = r.crashed

SetDispatcher(d) ==
  /\ g_rcl_logging_out_handlers' = d.handlers
  /\ g_rcl_logging_num_out_handlers' = d.num
  /\ g_rcl_logging_stdout_enabled' = d.stdout_enabled
  /\ g_rcl_logging_rosout_enabled' = d.rosout_enabled
  /\ g_rcl_logging_ext_lib_enabled' = d.ext_lib_enabled
  /\ output_handler' = d.output_handler
  /\ ext_running' = d.ext_running

dispatcherVars ==
  <<g_rcl_logging_out_handlers, g_rcl_logging_num_out_handlers,
    g_rcl_logging_stdout_enabled, g_rcl_logging_rosout_enabled,
    g_rcl_logging_ext_lib_enabled, output_handler, ext_running>>

\* A faulted call returns nothing.
Last(op, node, rec, args, r) ==
  [op |-> op, node |-> node, rec |-> rec, args |-> args,
   ret |-> IF r.crashed THEN "fault" ELSE r.ret, calls |-> r.calls]

Init ==
  /\ is_initialized = FALSE
  /\ logger_map = EmptyMap
  /\ pub_state = EmptyPubs
  /\ g_rcl_logging_out_handlers = NoHandlers
  /\ g_rcl_logging_num_out_handlers = 0
  /\ g_rcl_logging_stdout_enabled = FALSE
  /\ g_rcl_logging_rosout_enabled = FALSE
  /\ g_rcl_logging_ext_lib_enabled = FALSE
  /\ output_handler = "console"
  /\ ext_running = FALSE
  /\ crashed = FALSE
  /\ last = [op |-> "none", node |-> NULL, rec |-> NoRecord, args |-> NoArgs,
             ret |-> RCL_RET_OK, calls |-> <<>>]

\* ----------------------------------------------------------------- actions
RosoutInit ==
  /\ ~crashed
  /\ \E allocator \in Allocators, map_init_ret \in {RCL_RET_OK, RCL_RET_BAD_ALLOC} :
       LET r == rcl_logging_rosout_init(Registry, allocator, map_init_ret)
       IN  /\ SetRegistry(r)
           /\ last' = Last("init", allocator, NoRecord, NoArgs, r)
  /\ UNCHANGED dispatcherVars

RosoutFini ==
  /\ ~crashed
  /\ \E order \in Orders(DOMAIN logger_map), plan \in FiniPlans(Cardinality(DOMAIN logger_map)),
        map_fini_ret \in {RCL_RET_OK, RCL_RET_ERROR} :
       LET r == rcl_logging_rosout_fini(Registry, order, plan, map_fini_ret)
       IN  /\ SetRegistry(r)
           /\ last' = Last("fini", NULL, NoRecord, NoArgs, r)
  /\ UNCHANGED dispatcherVars

\* At most cap publishers are ever created.
InitPublisherForNode(nodes, cap) ==
  /\ ~crashed
  /\ \E node \in nodes, o \in RegisterOutcomes :
       /\ o.pub_init_ret = RCL_RET_OK =>
            /\ FreeHandles(pub_state) # {}
            /\ MaxPublishers - Cardinality(FreeHandles(pub_state)) < cap
       /\ LET r == rcl_logging_rosout_init_publisher_for_node(
                     Registry, node, o.pub_init_ret, o.set_ret, o.fini_ret)
          IN  /\ SetRegistry(r)
              /\ last' = Last("init_publisher_for_node", node, NoRecord, NoArgs, r)
  /\ UNCHANGED dispatcherVars

FiniPublisherForNode(nodes) ==
  /\ ~crashed
  /\ \E node \in nodes, o \in UnregisterOutcomes :
       LET r == rcl_logging_rosout_fini_publisher_for_node(
                  Registry, node, o.fini_ret, o.unset_ret, o.ub)
       IN  /\ SetRegistry(r)
           /\ last' = Last("fini_publisher_for_node", node, NoRecord, NoArgs, r)
  /\ UNCHANGED dispatcherVars

RosoutOutputHandler(recs) ==
  /\ ~crashed
  /\ \E rec \in recs, o \in PublishOutcomes :
       LET r == rcl_logging_rosout_output_handler(Registry, rec, o.created, o.publish_ret, o.ub)
       IN  /\ SetRegistry(r)
           /\ last' = Last("output_handler", NULL, rec, NoArgs, r)
  /\ UNCHANGED dispatcherVars

Configure ==
  /\ ~crashed
  /\ \E args \in Args, allocator \in {"allocator"},
        map_init_ret \in {RCL_RET_OK, RCL_RET_BAD_ALLOC},
        ext_init_ret \in {RCL_RET_OK, RCL_RET_ERROR} :
       LET c == rcl_logging_configure(Registry, Dispatcher, args, allocator,
                                      map_init_ret, ext_init_ret)
       IN  /\ SetRegistry(c.r)
           /\ SetDispatcher(c.d)
           /\ last' = Last("configure", allocator, NoRecord, args, c.r)

LoggingFini ==
  /\ ~crashed
  /\ \E order \in Orders(DOMAIN logger_map), plan \in FiniPlans(Cardinality(DOMAIN logger_map)),
        map_fini_ret \in {RCL_RET_OK, RCL_RET_ERROR},
        ext_shutdown_ret \in {RCL_RET_OK, RCL_RET_ERROR} :
       LET c == rcl_logging_fini(Registry, Dispatcher, order, plan,
                                 map_fini_ret, ext_shutdown_ret)
       IN  /\ SetRegistry(c.r)
           /\ SetDispatcher(c.d)
           /\ last' = Last("logging_fini", NULL, NoRecord, NoArgs, c.r)

Emit(recs) ==
  /\ ~crashed
  /\ \E rec \in recs, o \in PublishOutcomes :
       LET r == rcutils_log(Registry, Dispatcher, rec, o.created, o.publish_ret, o.ub)
       IN  /\ SetRegistry(r)
           /\ last' = Last("emit", NULL, rec, NoArgs, r)
  /\ UNCHANGED dispatcherVars

\* The program as the runtime drives it, for one node: the registry is
\* initialized and finalized by rcl_logging_configure and rcl_logging_fini.
Next ==
  \/ Configure
  \/ LoggingFini
  \/ InitPublisherForNode({"n1"}, MaxLoggingPublishers)
  \/ FiniPublisherForNode({"n1"})
  \/ Emit(Records({"a"}, RecordStamps))

Spec == Init /\ [][Next]_vars

\* The record-to-message conversion over the whole range of timestamps.
NextStamp ==
  \/ RosoutInit
  \/ InitPublisherForNode(Nodes \cup {NULL}, MaxPublishers)
  \/ RosoutOutputHandler(Records({"a"}, Timestamps))

SpecStamp == Init /\ [][NextStamp]_vars

\* The registry alone, for every node and logger name.
NextRegistry ==
  \/ RosoutInit
  \/ RosoutFini
  \/ InitPublisherForNode(Nodes \cup {NULL}, MaxPublishers)
  \/ FiniPublisherForNode(Nodes \cup {NULL})
  \/ RosoutOutputHandler(Records(LoggerNames, RecordStamps))

SpecRegistry == Init /\ [][NextRegistry]_vars

\* ================================================================== claims
\* What the last call did, read from the calls it made.
LastFns == Fns(last.calls)

Made(fn) == Count(last.calls, fn)

Publishes == SelectSeq(last.calls, LAMBDA e : e.fn = "rcl_publish")

InvokedSinks == SelectSeq(LastFns, LAMBDA f : f \in Handlers)

StatusOf(fn) ==
  LET S == {i \in 1..Len(last.calls) : last.calls[i].fn = fn}
  IN  IF S = {} THEN RCL_RET_OK ELSE last.calls[CHOOSE i \in S : TRUE].key

\* A step that is a call of op: every call leaves its name in last.
StepOf(op) == last'.op = op /\ vars' # vars

RegistryUnchanged ==
  /\ is_initialized' = is_initialized
  /\ logger_map' = logger_map
  /\ pub_state' = pub_state

\* C1: on an Initialized registry, a registerForOwner(L) that succeeded,
\* followed immediately by registerForOwner(L) again, is answered
\* AlreadyRegistered, creates no second publisher and leaves the one entry
\* of L as it was.
C1_SecondRegisterRejected ==
  [][ ( /\ last.op = "init_publisher_for_node"
        /\ last.ret = RCL_RET_OK
        /\ is_initialized
        /\ Made("rcutils_hash_map_set") = 1
        /\ StepOf("init_publisher_for_node")
        /\ rcl_node_get_logger_name(last'.node) = rcl_node_get_logger_name(last.node) )
      => /\ last'.ret = RCL_RET_ALREADY_INIT
         /\ Count(last'.calls, "rcl_publisher_init") = 0
         /\ RegistryUnchanged
         /\ rcl_node_get_logger_name(last.node) \in DOMAIN logger_map'
         /\ Cardinality({h \in DOMAIN pub_state' : pub_state'[h] = "active"
                           /\ \E k \in DOMAIN logger_map' :
                                /\ logger_map'[k].publisher = h
                                /\ k = rcl_node_get_logger_name(last.node)}) = 1 ]_vars

C1_Witness ==
  /\ last.op = "init_publisher_for_node"
  /\ last.ret = RCL_RET_ALREADY_INIT
  /\ is_initialized
  /\ last.calls = <<>>
  /\ rcl_node_get_logger_name(last.node) \in DOMAIN logger_map
  /\ pub_state[logger_map[rcl_node_get_logger_name(last.node)].publisher] = "active"

\* C2: on an Initialized registry, unregisterForOwner(L) for a logger name
\* without an entry is answered NotRegistered, destroys no publisher and
\* leaves the map as it was.
C2_UnregisterUnknown ==
  [][ ( /\ is_initialized
        /\ StepOf("fini_publisher_for_node")
        /\ rcl_node_get_logger_name(last'.node) # NULL
        /\ rcl_node_get_logger_name(last'.node) \notin DOMAIN logger_map )
      => /\ last'.ret = RCL_RET_NOT_INIT
         /\ Count(last'.calls, "rcl_publisher_fini") = 0
         /\ Count(last'.calls, "rcutils_hash_map_unset") = 0
         /\ RegistryUnchanged ]_vars

C2_Witness ==
  /\ last.op = "fini_publisher_for_node"
  /\ last.ret = RCL_RET_NOT_INIT
  /\ is_initialized
  /\ rcl_node_get_logger_name(last.node) \notin DOMAIN logger_map
  /\ DOMAIN logger_map # {}

\* C3: while the registry is Uninitialized, fini, registerForOwner and
\* unregisterForOwner return success for any argument, call neither the
\* transport nor the map and leave the registry Uninitialized; the output
\* handler publishes nothing.
C3_UninitializedNoOps ==
  [][ ( /\ ~is_initialized
        /\ \/ StepOf("fini")
           \/ StepOf("init_publisher_for_node")
           \/ StepOf("fini_publisher_for_node")
           \/ StepOf("output_handler") )
      => /\ last'.ret = IF last'.op = "output_handler" THEN VOID ELSE RCL_RET_OK
         /\ last'.calls = <<>>
         /\ RegistryUnchanged
         /\ ~crashed' ]_vars

C3_Witness ==
  /\ ~is_initialized
  /\ last.op = "init_publisher_for_node"
  /\ last.node = "n1"
  /\ last.ret = RCL_RET_OK
  /\ last.calls = <<>>
  /\ \A h \in DOMAIN pub_state : pub_state[h] # "active"

MessageCreated ==
  \E i \in 1..Len(last.calls) :
    /\ last.calls[i].fn = "rcl_interfaces__msg__Log__create"
    /\ last.calls[i].key = "message"

\* C5: on an Initialized registry, the output handler called with a record
\* of a registered logger name, once its wire message is created, makes
\* exactly one rcl_publish on the publisher of that name's entry, carrying
\* the record's severity, logger name and text; for a logger name without an
\* entry it publishes nothing and returns.
C5_OnePublishPerRecord ==
  (last.op = "output_handler" /\ is_initialized)
  => IF last.rec.name \in DOMAIN logger_map
     THEN MessageCreated
          => /\ Len(Publishes) = 1
             /\ Publishes[1].pub = logger_map[last.rec.name].publisher
             /\ Publishes[1].msg.level = last.rec.severity
             /\ Publishes[1].msg.name = last.rec.name
             /\ Publishes[1].msg.msg = last.rec.log_str
     ELSE Len(Publishes) = 0 /\ last.ret = VOID

CurrentSinks == IteratedHandlers(Dispatcher, 1)

\* C7: once configure left the console, registry and external sinks in the
\* handler list, every emitted record invokes the three, once each and in
\* that order, whatever happens inside the earlier ones.
C7_AllSinksInOrder ==
  ( /\ last.op = "emit"
    /\ output_handler = "multiple"
    /\ CurrentSinks = <<"console", "rosout", "ext_lib">> )
  => InvokedSinks = <<"console", "rosout", "ext_lib">>

\* The sinks the last configure enabled and initialized, in priority order.
LastRosoutFailed ==
  ~last.args.log_rosout_disabled /\ StatusOf("rcl_logging_rosout_init") # RCL_RET_OK

LastExtFailed ==
  ~last.args.log_ext_lib_disabled /\ StatusOf("rcl_logging_external_initialize") # RCL_RET_OK

ExpectedSinks ==
  (IF ~last.args.log_stdout_disabled THEN <<"console">> ELSE <<>>)
  \o (IF ~last.args.log_rosout_disabled /\ ~LastRosoutFailed THEN <<"rosout">> ELSE <<>>)
  \o (IF ~last.args.log_ext_lib_disabled /\ ~LastExtFailed THEN <<"ext_lib">> ELSE <<>>)

SinkEnabled(h) ==
  CASE h = "console" -> g_rcl_logging_stdout_enabled
    [] h = "rosout" -> g_rcl_logging_rosout_enabled
    [] h = "ext_lib" -> g_rcl_logging_ext_lib_enabled

\* C8: after any configure, the second of two included, the handlers the
\* dispatcher iterates are exactly the sinks that configure enabled and
\* initialized, in console, registry, external order; a record emitted later
\* is handed to none but these, in that order, and the handler count stays
\* within the capacity of 4.
C8_ReconfigureReplaces ==
  /\ g_rcl_logging_num_out_handlers <= RCL_LOGGING_MAX_OUTPUT_FUNCS
  /\ last.op = "configure" => CurrentSinks = ExpectedSinks
  /\ \A i \in 1..Len(CurrentSinks) : SinkEnabled(CurrentSinks[i])
  /\ (last.op = "emit" /\ output_handler = "multiple")
     => /\ Len(InvokedSinks) <= Len(CurrentSinks)
        /\ \A i \in 1..Len(InvokedSinks) : InvokedSinks[i] = CurrentSinks[i]

\* A record emitted after a second configure that enabled fewer sinks than
\* the first: a slot past the handler count still names a sink of the first.
C8_Witness ==
  /\ last.op = "emit"
  /\ output_handler = "multiple"
  /\ g_rcl_logging_num_out_handlers = 1
  /\ g_rcl_logging_out_handlers[2] # NULL
  /\ InvokedSinks = CurrentSinks
  /\ Len(InvokedSinks) = 1

\* C9: a configure in which the initialization of the registry or of the
\* external subsystem failed returns a failure status.
C9_ConfigureReportsFailure ==
  (last.op = "configure" /\ (LastRosoutFailed \/ LastExtFailed))
  => last.ret \in ({StatusOf("rcl_logging_rosout_init"),
                    StatusOf("rcl_logging_external_initialize")} \ {RCL_RET_OK})

Range(seq) == {seq[i] : i \in 1..Len(seq)}

\* A sink that is enabled and not in the handler list: its subsystem failed
\* to initialize in the last configure.
SinkOmitted ==
  \/ g_rcl_logging_rosout_enabled /\ "rosout" \notin Range(CurrentSinks)
  \/ g_rcl_logging_ext_lib_enabled /\ "ext_lib" \notin Range(CurrentSinks)

\* C10: after a configure in which the registry or the external subsystem
\* failed to initialize, the handler list holds the console sink if enabled
\* and every enabled sink that initialized, not the failed one, the
\* dispatcher is the installed output handler, and a record emitted next
\* reaches every sink of that list.
C10_FailedSinkOmitted ==
  /\ (last.op = "configure" /\ (LastRosoutFailed \/ LastExtFailed))
     => /\ CurrentSinks = ExpectedSinks
        /\ LastRosoutFailed => "rosout" \notin Range(CurrentSinks)
        /\ LastExtFailed => "ext_lib" \notin Range(CurrentSinks)
        /\ SinkOmitted
        /\ output_handler = "multiple"
  /\ (last.op = "emit" /\ output_handler = "multiple" /\ SinkOmitted)
     => InvokedSinks = CurrentSinks

C10_Witness ==
  /\ last.op = "emit"
  /\ output_handler = "multiple"
  /\ g_rcl_logging_ext_lib_enabled
  /\ ~ext_running
  /\ InvokedSinks = <<"console", "rosout">>
  /\ Len(Publishes) = 1

\* The calls of a given function the last call made, in order.
CallsOf(fn) == SelectSeq(last.calls, LAMBDA e : e.fn = fn)

\* C11: a shutdown after a configure that enabled both the registry and the
\* external sink attempts the external subsystem's shutdown whether or not
\* the registry teardown succeeded, and returns the first error of the two.
C11_ShutdownTriesBoth ==
  ( /\ last.op = "logging_fini"
    /\ ~crashed
    /\ g_rcl_logging_rosout_enabled
    /\ g_rcl_logging_ext_lib_enabled )
  => /\ Made("rcl_logging_external_shutdown") = 1
     /\ last.ret = IF StatusOf("rcl_logging_rosout_fini") # RCL_RET_OK
                   THEN StatusOf("rcl_logging_rosout_fini")
                   ELSE StatusOf("rcl_logging_external_shutdown")

\* The status a call of fn in calls returned; RCL_RET_OK when none was made.
StatusIn(calls, fn) ==
  LET S == {i \in 1..Len(calls) : calls[i].fn = fn}
  IN  IF S = {} THEN RCL_RET_OK ELSE calls[CHOOSE i \in S : TRUE].key

\* C12: on an Initialized registry with an entry for L, an unregister of L
\* whose rcl_publisher_fini fails returns that error and leaves the entry of L
\* in the map with the same node and publisher, so that an unregister of L
\* that follows is not answered RCL_RET_NOT_INIT; the entry is removed only
\* when both the publisher's fini and the map's unset succeeded.
C12_FailedTeardownKeepsEntry ==
  [][ LET name == rcl_node_get_logger_name(last'.node)
          teardown == StatusIn(last'.calls, "rcl_publisher_fini")
      IN  /\ ( /\ StepOf("fini_publisher_for_node")
               /\ is_initialized
               /\ last'.node # NULL
               /\ name \in DOMAIN logger_map )
             => /\ Count(last'.calls, "rcl_publisher_fini") = 1
                /\ teardown \notin {RCL_RET_OK, "fault"}
                     => /\ last'.ret = teardown
                        /\ is_initialized'
                        /\ logger_map' = logger_map
                /\ name \notin DOMAIN logger_map'
                     => /\ teardown = RCL_RET_OK
                        /\ Count(last'.calls, "rcutils_hash_map_unset") = 1
                        /\ last'.ret = RCL_RET_OK
          /\ ( /\ last.op = "fini_publisher_for_node"
               /\ StatusOf("rcl_publisher_fini") \notin {RCL_RET_OK, "fault"}
               /\ StepOf("fini_publisher_for_node")
               /\ name = rcl_node_get_logger_name(last.node) )
             => last'.ret # RCL_RET_NOT_INIT ]_vars

C12_Witness ==
  /\ last.op = "fini_publisher_for_node"
  /\ is_initialized
  /\ StatusOf("rcl_publisher_fini") = RCL_RET_ERROR
  /\ last.ret = RCL_RET_ERROR
  /\ rcl_node_get_logger_name(last.node) \in DOMAIN logger_map
  /\ pub_state[logger_map[rcl_node_get_logger_name(last.node)].publisher] = "active"

\* C13: on an Initialized registry without an entry for L, a register for a
\* node named L whose publisher is created but whose insertion in the map
\* fails makes rcl_publisher_fini on the publisher it created before it
\* returns (finalizing it when that fini succeeds), leaves the map without an
\* entry for L and returns the insertion's error, also when the fini fails;
\* when the creation fails it inserts nothing and returns the creation's
\* error.
C13_FailedRegisterUndone ==
  [][ LET name == rcl_node_get_logger_name(last'.node)
          c == last'.calls
          created == StatusIn(c, "rcl_publisher_init")
          inserted == StatusIn(c, "rcutils_hash_map_set")
      IN  ( /\ StepOf("init_publisher_for_node")
            /\ is_initialized
            /\ last'.node # NULL
            /\ name # NULL
            /\ name \notin DOMAIN logger_map )
          => /\ Count(c, "rcl_publisher_init") = 1
             /\ created # RCL_RET_OK
                  => /\ last'.ret = created
                     /\ Count(c, "rcutils_hash_map_set") = 0
                     /\ RegistryUnchanged
             /\ (created = RCL_RET_OK /\ inserted # RCL_RET_OK)
                  => /\ Fns(c) = <<"rcl_publisher_init", "rcutils_hash_map_set",
                                   "rcl_publisher_fini">>
                     /\ c[3].pub = c[1].pub
                     /\ c[3].node = last'.node
                     /\ pub_state[c[1].pub] = "unused"
                     /\ c[3].key = RCL_RET_OK => pub_state'[c[1].pub] = "finalized"
                     /\ last'.ret = inserted
                     /\ logger_map' = logger_map ]_vars

C13_Witness ==
  /\ last.op = "init_publisher_for_node"
  /\ is_initialized
  /\ StatusOf("rcl_publisher_init") = RCL_RET_OK
  /\ StatusOf("rcutils_hash_map_set") = RCL_RET_BAD_ALLOC
  /\ StatusOf("rcl_publisher_fini") = RCL_RET_ERROR
  /\ last.ret = RCL_RET_BAD_ALLOC
  /\ rcl_node_get_logger_name(last.node) \notin DOMAIN logger_map

\* C14: rcl_logging_rosout_fini on an Initialized registry finalizes the
\* publishers of the entries one by one; at the first rcl_publisher_fini
\* that fails it stops, finalizes no further publisher, does not destroy the
\* map, returns that error and leaves the registry Initialized; when every
\* entry's fini succeeded (and only then) it destroys the map and leaves the
\* registry Uninitialized with an empty map, as before the first init.
C14_FiniAllOrStop ==
  (last.op = "fini" /\ last.calls # <<>>)
  => LET finis == CallsOf("rcl_publisher_fini")
         AllTornDown == \A i \in 1..Len(finis) : finis[i].key = RCL_RET_OK
     IN  /\ \A i \in 1..Len(finis) :
              finis[i].key # RCL_RET_OK
                => /\ i = Len(finis)
                   /\ Made("rcutils_hash_map_fini") = 0
                   /\ last.ret = finis[i].key
                   /\ is_initialized
         /\ ~is_initialized => AllTornDown
         /\ (AllTornDown /\ StatusOf("rcutils_hash_map_fini") = RCL_RET_OK)
              => /\ Made("rcutils_hash_map_fini") = 1
                 /\ last.ret = RCL_RET_OK
                 /\ ~is_initialized
                 /\ logger_map = EmptyMap

\* C15: in every state the registry reaches, a logger name has an entry
\* exactly when the publisher created for its node is active (created and
\* not finalized): every entry holds an active publisher, and every active
\* publisher is held by the entry of its node's logger name. The map is a
\* function of the logger name, so each name has at most one entry.
C15_EntryIffActivePublisher ==
  ~crashed
  => /\ \A k \in DOMAIN logger_map :
          /\ pub_state[logger_map[k].publisher] = "active"
          /\ rcl_node_get_logger_name(logger_map[k].node) = k
     /\ \A h \in DOMAIN pub_state :
          pub_state[h] = "active"
            => \E k \in DOMAIN logger_map : logger_map[k].publisher = h

\* C16: the output handler called for a registered logger name with a
\* record that has no source location (location NULL) completes without a
\* fault and, once the wire message is created, publishes one message with
\* the record's severity, logger name and text; nothing is read through the
\* absent location.
C16_AbsentLocationTolerated ==
  ( /\ last.op = "output_handler"
    /\ is_initialized
    /\ ~last.rec.location.present
    /\ last.rec.name \in DOMAIN logger_map
    /\ MessageCreated )
  => /\ last.ret = VOID
     /\ Len(Publishes) = 1
     /\ Publishes[1].msg.level = last.rec.severity
     /\ Publishes[1].msg.name = last.rec.name
     /\ Publishes[1].msg.msg = last.rec.log_str
     /\ Publishes[1].msg.file # GarbageLocation.file_name
     /\ Publishes[1].msg.function # GarbageLocation.function_name
     /\ Publishes[1].msg.line # GarbageLocation.line_number

\* C17: in the output handler every wire message that was created is
\* destroyed exactly once before the handler returns, whether rcl_publish
\* succeeded or failed; when the creation fails nothing is published and
\* nothing is destroyed; the handler always returns, without a fault.
C17_MessageReleasedOnce ==
  last.op = "output_handler"
  => /\ last.ret = VOID
     /\ MessageCreated => Made("rcl_interfaces__msg__Log__destroy") = 1
     /\ ~MessageCreated => /\ Made("rcl_publish") = 0
                           /\ Made("rcl_interfaces__msg__Log__destroy") = 0

\* C18: rcl_logging_fini makes the bare console handler the output handler
\* before any teardown call, whether or not the teardown succeeds; the
\* console handler stays the output handler until the next
\* rcl_logging_configure, and a record emitted meanwhile reaches the console
\* only: neither the multiple output handler, nor the rosout handler, nor
\* the external library is called.
C18_ConsoleOnlyAfterShutdown ==
  [][ /\ StepOf("logging_fini")
           => /\ last'.calls[1].fn = "rcutils_logging_set_output_handler"
              /\ last'.calls[1].key = "console"
              /\ Count(last'.calls, "rcutils_logging_set_output_handler") = 1
              /\ output_handler' = "console"
      /\ (output_handler = "console" /\ output_handler' # "console")
           => last'.op = "configure"
      /\ (StepOf("emit") /\ output_handler = "console")
           => /\ Fns(last'.calls) = <<"console_output">>
              /\ last'.ret = VOID
              /\ RegistryUnchanged ]_vars

C18_Witness ==
  /\ last.op = "emit"
  /\ output_handler = "console"
  /\ g_rcl_logging_rosout_enabled
  /\ g_rcl_logging_ext_lib_enabled
  /\ g_rcl_logging_num_out_handlers = 3
  /\ is_initialized
  /\ last.rec.name \in DOMAIN logger_map
  /\ ext_running
  /\ Fns(last.calls) = <<"console_output">>

\* C19: in no call is a publisher handed to rcl_publisher_fini after an
\* earlier rcl_publisher_fini of it succeeded, and no message is published
\* through a publisher whose rcl_publisher_fini already succeeded; also
\* when publisher teardown and map removal fail and the call is retried.
C19_NoUseAfterDestroy ==
  [][ \A i \in 1..Len(last'.calls) :
        last'.calls[i].fn \in {"rcl_publisher_fini", "rcl_publish"}
          => pub_state[last'.calls[i].pub] # "finalized" ]_vars

\* C20 as claimed: a shutdown that returns success leaves the registry
\* Uninitialized with an empty map and the external library shut down,
\* whichever configure started them, also when the rosout or external sink
\* was enabled by an earlier configure and disabled by the last one.
C20_ShutdownOfEverything ==
  (last.op = "logging_fini" /\ last.ret = RCL_RET_OK)
  => /\ ~is_initialized
     /\ logger_map = EmptyMap
     /\ ~ext_running

\* C20, amended: a shutdown that returns success tears down what the last
\* configure enabled.  With the rosout sink enabled by the last configure
\* it leaves the registry Uninitialized with an empty map and every
\* publisher that had an entry finalized (so no publisher is left active
\* when every active publisher had an entry); with the external sink
\* enabled by the last configure it shuts the external library down.  A
\* sink the last configure disabled is left as it was.
C20_ShutdownOfLastConfigure ==
  [][ (StepOf("logging_fini") /\ last'.ret = RCL_RET_OK)
      => /\ g_rcl_logging_rosout_enabled
              => /\ ~is_initialized'
                 /\ logger_map' = EmptyMap
                 /\ \A k \in DOMAIN logger_map :
                      pub_state'[logger_map[k].publisher] = "finalized"
                 /\ (\A h \in DOMAIN pub_state :
                       pub_state[h] = "active"
                         => \E k \in DOMAIN logger_map : logger_map[k].publisher = h)
                      => \A h \in DOMAIN pub_state : pub_state'[h] # "active"
         /\ ~g_rcl_logging_rosout_enabled => RegistryUnchanged
         /\ g_rcl_logging_ext_lib_enabled
              => /\ Count(last'.calls, "rcl_logging_external_shutdown") = 1
                 /\ ~ext_running'
         /\ ~g_rcl_logging_ext_lib_enabled
              => /\ Count(last'.calls, "rcl_logging_external_shutdown") = 0
                 /\ ext_running' = ext_running ]_vars

C20_Witness ==
  /\ last.op = "logging_fini"
  /\ last.ret = RCL_RET_OK
  /\ g_rcl_logging_rosout_enabled
  /\ g_rcl_logging_ext_lib_enabled
  /\ Made("rcutils_hash_map_fini") = 1
  /\ Made("rcl_logging_external_shutdown") = 1
  /\ ~is_initialized
  /\ ~ext_running
  /\ \E h \in DOMAIN pub_state : pub_state[h] = "finalized"
  /\ \A h \in DOMAIN pub_state : pub_state[h] # "active"

====
